---------------------------- MODULE Spec2Model ----------------------------
(***************************************************************************)
(* The order book of ExchangeSimulator (src/main.cpp): placeOrder inserts  *)
(* an order, re-sorts the side it went to with std::sort and runs the      *)
(* matchOrders loop.  One action per step of that code: the insertion      *)
(* (lines 51-60), one iteration of the match loop (lines 66-76) and the    *)
(* loop exit with the return (lines 66/78, 62).  While a call is running   *)
(* (pc = "match") no other call can start: the code is single-threaded.    *)
(***************************************************************************)
EXTENDS Integers, Sequences, FiniteSets

\* ---- bounds of the exploration ------------------------------------------
MaxOrders == 3      \* calls of placeOrder made by arbitrary callers
MaxPrice  == 2      \* largest price a caller passes
MaxQty    == 2      \* largest quantity a caller passes
MaxPrints == 2      \* calls of printOrderBook between two calls of placeOrder

\* placeOrder(bool isBuy, double price, int quantity) takes any values.
\* Callers pass every positive price and quantity up to the bounds, and one
\* argument pair for each way of not being positive: a zero price, a zero
\* quantity, a negative quantity.
Prices     == 1..MaxPrice
Quantities == 1..MaxQty

ValidInputs == [price : Prices, quantity : Quantities]

InvalidInputs == {[price |-> 0, quantity |-> 1],
                  [price |-> 1, quantity |-> 0],
                  [price |-> 1, quantity |-> -1]}

VARIABLES
    buyOrders,       \* std::vector<Order> buyOrders
    sellOrders,      \* std::vector<Order> sellOrders
    orderIdCounter,  \* int orderIdCounter
    pc,              \* "idle": no call running; "match": inside matchOrders
    order,           \* the local `order` of the running / last placeOrder
    trades,          \* the "Trade executed" lines printed by the current call
    returned,        \* the values returned by placeOrder so far, in order
    preBuy,          \* buyOrders as they were when the current call started
    preSell,         \* sellOrders as they were when the current call started
    preCounter,      \* orderIdCounter as it was when the current call started
    allValid,        \* every call so far had price > 0 and quantity > 0
    script,          \* number of statements of main's demo executed
    printed          \* what each printOrderBook since the last placeOrder printed

vars == <<buyOrders, sellOrders, orderIdCounter, pc, order, trades,
          returned, preBuy, preSell, preCounter, allValid, script, printed>>

\* ---- struct Order --------------------------------------------------------
Order(_id, _isBuy, _price, _qty) ==
    [id |-> _id, isBuy |-> _isBuy, price |-> _price, quantity |-> _qty]

\* value of `order` while placeOrder has not been called yet
NoOrder == Order(-1, TRUE, 0, 0)

\* The input constraint of the specification (price > 0, quantity > 0).
\* placeOrder itself does not test it.
ValidOrder(o) == o.price > 0 /\ o.quantity > 0

\* ---- helpers --------------------------------------------------------------
Min(a, b) == IF a < b THEN a ELSE b

Range(s) == {s[i] : i \in 1..Len(s)}

RECURSIVE TotalQty(_)
TotalQty(s) == IF s = <<>> THEN 0 ELSE s[1].quantity + TotalQty(Tail(s))

RECURSIVE SumTrades(_)
SumTrades(s) == IF s = <<>> THEN 0 ELSE s[1].quantity + SumTrades(Tail(s))

BeforeSellComparator(a, b, isBuy) == a.price < b.price

BeforeBuyComparator(a, b, isBuy) == a.price > b.price

\* The comparators handed to std::sort: a.price > b.price for the buy side
\* (line 55), a.price < b.price for the sell side (line 59).
Before(a, b, isBuy) == IF isBuy THEN a.price > b.price ELSE a.price < b.price

\* std::sort over a set of orders: every arrangement in which no element
\* is preceded by one that the comparator puts after it.  std::sort does not
\* keep the relative order of elements the comparator calls equivalent, so
\* all arrangements of an equal-price group are results.
RECURSIVE SortResults(_, _)
SortResults(S, isBuy) ==
    IF S = {} THEN {<<>>}
    ELSE UNION { { <<x>> \o t : t \in SortResults(S \ {x}, isBuy) } :
                 x \in {y \in S : \A z \in S : ~Before(z, y, isBuy)} }

\* ---- main's demo (lines 149-152) -----------------------------------------
Demo == << [isBuy |-> TRUE,  price |-> 100, quantity |-> 100],
           [isBuy |-> TRUE,  price |-> 99,  quantity |-> 50],
           [isBuy |-> FALSE, price |-> 100, quantity |-> 75],
           [isBuy |-> FALSE, price |-> 101, quantity |-> 25] >>

\* ---- ExchangeSimulator() --------------------------------------------------
Init ==
    /\ buyOrders = <<>>
    /\ sellOrders = <<>>
    /\ orderIdCounter = 0
    /\ pc = "idle"
    /\ order = NoOrder
    /\ trades = <<>>
    /\ returned = <<>>
    /\ preBuy = <<>>
    /\ preSell = <<>>
    /\ preCounter = 0
    /\ allValid = TRUE
    /\ script = 0
    /\ printed = <<>>

InsertOnOtherSide(isBuy, price, quantity) ==
    LET o == Order(orderIdCounter, isBuy, price, quantity) IN
    /\ order' = o
    /\ orderIdCounter' = orderIdCounter + 1
    /\ IF ~isBuy
         THEN /\ buyOrders' \in SortResults(Range(Append(buyOrders, o)), TRUE)
              /\ sellOrders' = sellOrders
         ELSE /\ sellOrders' \in SortResults(Range(Append(sellOrders, o)), FALSE)
              /\ buyOrders' = buyOrders
    /\ preBuy' = buyOrders
    /\ preSell' = sellOrders
    /\ preCounter' = orderIdCounter
    /\ trades' = <<>>
    /\ allValid' = (allValid /\ ValidOrder(o))
    /\ pc' = "match"
    /\ printed' = <<>>
    /\ UNCHANGED returned

\* ---- placeOrder, lines 51-60: construct, push_back, std::sort -------------
Insert(isBuy, price, quantity) ==
    LET o == Order(orderIdCounter, isBuy, price, quantity) IN
    /\ order' = o
    /\ orderIdCounter' = orderIdCounter + 1
    /\ IF isBuy
         THEN /\ buyOrders' \in SortResults(Range(Append(buyOrders, o)), TRUE)
              /\ sellOrders' = sellOrders
         ELSE /\ sellOrders' \in SortResults(Range(Append(sellOrders, o)), FALSE)
              /\ buyOrders' = buyOrders
    /\ preBuy' = buyOrders
    /\ preSell' = sellOrders
    /\ preCounter' = orderIdCounter
    /\ trades' = <<>>
    /\ allValid' = (allValid /\ ValidOrder(o))
    /\ pc' = "match"
    /\ printed' = <<>>
    /\ UNCHANGED returned

\* A call by a caller that passes arguments of the set `inputs`.
Call(inputs) ==
    /\ pc = "idle"
    /\ orderIdCounter < MaxOrders
    /\ \E isBuy \in BOOLEAN, in \in inputs :
          Insert(isBuy, in.price, in.quantity)
    /\ UNCHANGED script

\* A call by an arbitrary caller.
PlaceOrder == Call(ValidInputs \cup InvalidInputs)

\* A call by a caller that keeps to price > 0 and quantity > 0.
PlaceValidOrder == Call(ValidInputs)

\* The next call of main's demo, on the book main constructed.
MainPlaceOrder ==
    /\ pc = "idle"
    /\ script < Len(Demo)
    /\ script = orderIdCounter
    /\ Insert(Demo[script + 1].isBuy, Demo[script + 1].price,
              Demo[script + 1].quantity)
    /\ script' = script + 1

\* ---- matchOrders, lines 66-80 ---------------------------------------------
CrossesStrictly(b, s) == b.price > s.price

Crosses(b, s) == b.price >= s.price

LoopCondition ==
    /\ buyOrders # <<>>
    /\ sellOrders # <<>>
    /\ Crosses(buyOrders[1], sellOrders[1])

TradeQuantityOfBuy(b, s) == b.quantity

TradeQuantity(b, s) == Min(b.quantity, s.quantity)

TradePriceOfBuy(b, s) == b.price

\* line 70: the price printed is sellOrders[0].price
TradePrice(b, s) == s.price

FillNoErase(side, quantity) ==
    <<[side[1] EXCEPT !.quantity = @ - quantity]>> \o Tail(side)

FillNoDecrement(side, quantity) ==
    IF side[1].quantity - quantity = 0 THEN Tail(side) ELSE side

\* lines 72-76 on one side: decrement the front, erase it when it reached 0
Fill(side, quantity) ==
    IF side[1].quantity - quantity = 0
      THEN Tail(side)
      ELSE <<[side[1] EXCEPT !.quantity = @ - quantity]>> \o Tail(side)

\* One iteration of the loop that takes the trade branch.
MatchStep ==
    /\ pc = "match"
    /\ LoopCondition
    /\ LET quantity == TradeQuantity(buyOrders[1], sellOrders[1]) IN
         /\ trades' = Append(trades,
                [quantity |-> quantity,
                 price |-> TradePrice(buyOrders[1], sellOrders[1])])
         /\ buyOrders' = Fill(buyOrders, quantity)
         /\ sellOrders' = Fill(sellOrders, quantity)
    /\ UNCHANGED <<orderIdCounter, pc, order, returned, preBuy, preSell,
                   preCounter, allValid, script, printed>>

ReturnValueCounter == orderIdCounter

\* line 62: return order.id
ReturnValue == order.id

\* The loop ends (a side is empty, or break) and placeOrder returns order.id.
MatchExit ==
    /\ pc = "match"
    /\ ~LoopCondition
    /\ returned' = Append(returned, ReturnValue)
    /\ pc' = "idle"
    /\ UNCHANGED <<buyOrders, sellOrders, orderIdCounter, order, trades,
                   preBuy, preSell, preCounter, allValid, script, printed>>

\* ---- printOrderBook, lines 83-94 ------------------------------------------
\* the "ID: .., Price: $.., Qty: .." lines of one side, in vector order
PrintedLines(side) ==
    [i \in 1..Len(side) |->
        [id |-> side[i].id, price |-> side[i].price,
         quantity |-> side[i].quantity]]

PrintOrderBookDraining ==
    /\ pc = "idle"
    /\ Len(printed) < MaxPrints
    /\ printed' = Append(printed, [buy |-> PrintedLines(buyOrders),
                                   sell |-> PrintedLines(sellOrders)])
    /\ buyOrders' = <<>>
    /\ sellOrders' = <<>>
    /\ UNCHANGED <<orderIdCounter, pc, order, trades, returned, preBuy,
                   preSell, preCounter, allValid, script>>

\* The two range-for loops read the vectors through const references.
PrintOrderBook ==
    /\ pc = "idle"
    /\ Len(printed) < MaxPrints
    /\ printed' = Append(printed, [buy |-> PrintedLines(buyOrders),
                                   sell |-> PrintedLines(sellOrders)])
    /\ UNCHANGED <<buyOrders, sellOrders, orderIdCounter, pc, order, trades,
                   returned, preBuy, preSell, preCounter, allValid, script>>

Next == PlaceOrder \/ MainPlaceOrder \/ MatchStep \/ MatchExit

Spec == Init /\ [][Next]_vars

\* The book when every caller keeps to price > 0 and quantity > 0.  The call
\* that is running is never suspended (single-threaded code), so the steps
\* of the running call are weakly fair.
NextValid == PlaceValidOrder \/ MainPlaceOrder \/ MatchStep \/ MatchExit

FairValidSpec ==
    Init /\ [][NextValid]_vars /\ WF_vars(MatchStep \/ MatchExit)

\* The book with a reporting consumer: between the calls of placeOrder the
\* book is printed, as main does on line 153.
NextInspect == NextValid \/ PrintOrderBook

InspectSpec == Init /\ [][NextInspect]_vars

Resting == Range(buyOrders) \cup Range(sellOrders)

\* placeOrder has been called at least once
Called == order.id >= 0

\* ==== C1 ====================================================================
NonCrossing ==
    \/ buyOrders = <<>>
    \/ sellOrders = <<>>
    \/ buyOrders[1].price < sellOrders[1].price

\* C1: whenever no call is running and every submission so far was valid,
\* a side is empty or the front buy price is strictly below the front sell
\* price.
C1_NonCrossing == (pc = "idle" /\ allValid) => NonCrossing

\* a call that traded has returned and left orders on both sides
C1_Witness ==
    /\ pc = "idle" /\ allValid
    /\ trades # <<>>
    /\ buyOrders # <<>> /\ sellOrders # <<>>

\* ==== C2 ====================================================================
\* C2: a submission with a non-positive price or quantity leaves buyOrders,
\* sellOrders and the id counter as they were before the call and emits no
\* trade.
C2_InvalidOrderRejected ==
    (Called /\ ~ValidOrder(order)) =>
        /\ buyOrders = preBuy
        /\ sellOrders = preSell
        /\ orderIdCounter = preCounter
        /\ trades = <<>>

\* ==== C3 ====================================================================
SortedBy(side, isBuy) ==
    \A i \in 1..(Len(side) - 1) :
        IF isBuy THEN side[i].price >= side[i + 1].price
                 ELSE side[i].price <= side[i + 1].price

\* C3: after every call of a sequence of valid submissions buyOrders is in
\* non-increasing and sellOrders in non-decreasing price order.
C3_Sorted ==
    (pc = "idle" /\ allValid) =>
        SortedBy(buyOrders, TRUE) /\ SortedBy(sellOrders, FALSE)

\* the sort had to move an order: a later buy rests in front of an earlier
\* buy with a lower price
C3_Witness ==
    /\ pc = "idle" /\ allValid
    /\ \E i \in 1..(Len(buyOrders) - 1) :
          /\ buyOrders[i].id > buyOrders[i + 1].id
          /\ buyOrders[i].price > buyOrders[i + 1].price

\* ==== C4 ====================================================================
Fifo(side) ==
    \A i, j \in 1..Len(side) :
        (i < j /\ side[i].price = side[j].price) => side[i].id < side[j].id

\* C4: after every call of a sequence of valid submissions, two resting
\* orders of one side with equal price stand in ascending id order.
C4_FifoWithinPriceLevel ==
    (pc = "idle" /\ allValid) => Fifo(buyOrders) /\ Fifo(sellOrders)

\* ==== C5 ====================================================================
\* C5: in a run of valid submissions every resting order has a quantity
\* above zero, in the states between the iterations of the match loop as
\* well as between the calls.
C5_PositiveQuantities == allValid => \A o \in Resting : o.quantity > 0

\* an iteration has just erased a filled order and left the other front
\* order partially filled
C5_Witness ==
    /\ allValid /\ pc = "match" /\ trades # <<>>
    /\ Len(buyOrders) + Len(sellOrders) = Len(preBuy) + Len(preSell)
    /\ \E o \in Resting : \E p \in Range(preBuy) \cup Range(preSell) \cup {order} :
          o.id = p.id /\ o.quantity < p.quantity

\* ==== C6 ====================================================================
\* quantity that left a side since the current call started; the incoming
\* order's submitted quantity counts on its own side
RemovedFromBuy ==
    TotalQty(preBuy) + (IF order.isBuy THEN order.quantity ELSE 0)
        - TotalQty(buyOrders)

RemovedFromSell ==
    TotalQty(preSell) + (IF order.isBuy THEN 0 ELSE order.quantity)
        - TotalQty(sellOrders)

\* C6: in every call the quantity removed from the buy side equals the
\* quantity removed from the sell side, and both equal the sum of the
\* quantities of the trades the call has emitted.
C6_QuantityConservation ==
    Called =>
        /\ RemovedFromBuy = RemovedFromSell
        /\ RemovedFromBuy = SumTrades(trades)

\* a finished call that emitted two trades and left a partial fill resting
C6_Witness ==
    /\ pc = "idle"
    /\ Len(trades) >= 2
    /\ SumTrades(trades) > 0
    /\ \E o \in Resting : \E p \in Range(preBuy) \cup Range(preSell) \cup {order} :
          o.id = p.id /\ o.quantity < p.quantity

\* ==== C7 ====================================================================
\* C7: every trade emitted carries min(front buy quantity, front sell
\* quantity) and the front sell order's price, whichever side came in; and
\* when one sell q@p rests alone, a buy of q at a price >= p emits exactly
\* the trade {p, q} and leaves both sides empty.
C7_TradeQuantityAndPrice ==
    [][ /\ (pc = "match" /\ trades' # trades) =>
             /\ buyOrders # <<>> /\ sellOrders # <<>>
             /\ trades' = Append(trades,
                    [quantity |-> IF buyOrders[1].quantity
                                       < sellOrders[1].quantity
                                    THEN buyOrders[1].quantity
                                    ELSE sellOrders[1].quantity,
                     price |-> sellOrders[1].price])
        /\ ( /\ pc = "match" /\ pc' = "idle"
             /\ preBuy = <<>> /\ Len(preSell) = 1
             /\ order.isBuy
             /\ order.price >= preSell[1].price
             /\ order.quantity = preSell[1].quantity ) =>
             /\ trades' = <<[quantity |-> preSell[1].quantity,
                             price |-> preSell[1].price]>>
             /\ buyOrders' = <<>> /\ sellOrders' = <<>>
      ]_vars

\* an incoming sell has hit a resting bid of a higher price and of a larger
\* quantity, and the one trade of the call carries the sell's price and the
\* sell's quantity
C7_Witness ==
    /\ pc = "idle"
    /\ Len(trades) = 1
    /\ ~order.isBuy /\ order.quantity > 0
    /\ preBuy # <<>>
    /\ preBuy[1].price > order.price
    /\ preBuy[1].quantity > order.quantity
    /\ trades[1] = [quantity |-> order.quantity, price |-> order.price]

\* ==== C8 ====================================================================
\* C8: the ids returned are strictly increasing in call order, so none is
\* returned twice; the id of a running call is above every id returned
\* before; no two resting orders share an id; and the value a call returns
\* is the id stored in the order that the call inserted.
C8_OrderIds ==
    /\ \A i, j \in 1..Len(returned) : i < j => returned[i] < returned[j]
    /\ pc = "match" => \A i \in 1..Len(returned) : returned[i] < order.id
    /\ \A i, j \in 1..Len(buyOrders \o sellOrders) :
          i # j => (buyOrders \o sellOrders)[i].id
                     # (buyOrders \o sellOrders)[j].id
    /\ (pc = "match" /\ trades = <<>>) =>
          order \in Range(IF order.isBuy THEN buyOrders ELSE sellOrders)
    /\ (pc = "idle" /\ Called) => returned[Len(returned)] = order.id

\* three calls have returned and their orders rest
C8_Witness ==
    /\ pc = "idle"
    /\ Len(returned) >= 3
    /\ Cardinality(Resting) >= 3

\* ==== C9 ====================================================================
\* C9: main's demo on a fresh book (Buy 100@100, Buy 50@99, Sell 75@100,
\* Sell 25@101) emits one trade in all, {price 100, quantity 75}, in the
\* third call; after the third call the bids are [25@100, 50@99] and the
\* asks are empty; after the fourth the bids are the same and the asks are
\* [25@101].
C9_MainDemo ==
    (pc = "idle" /\ script = orderIdCounter) =>
        /\ script \in {1, 2, 4} => trades = <<>>
        /\ script = 1 => buyOrders = <<Order(0, TRUE, 100, 100)>>
        /\ script = 2 => buyOrders = <<Order(0, TRUE, 100, 100),
                                       Order(1, TRUE, 99, 50)>>
        /\ script \in {1, 2} => sellOrders = <<>>
        /\ script = 3 =>
              /\ trades = <<[quantity |-> 75, price |-> 100]>>
              /\ buyOrders = <<Order(0, TRUE, 100, 25), Order(1, TRUE, 99, 50)>>
              /\ sellOrders = <<>>
        /\ script = 4 =>
              /\ buyOrders = <<Order(0, TRUE, 100, 25), Order(1, TRUE, 99, 50)>>
              /\ sellOrders = <<Order(3, FALSE, 101, 25)>>

\* the fourth call of the demo has returned
C9_Witness == pc = "idle" /\ script = 4 /\ orderIdCounter = 4

\* ==== C10 ===================================================================
\* C10: in a run of valid submissions every iteration of the match loop
\* that trades lowers the total resting quantity, which is never negative,
\* and a call that is inside the loop reaches its return.
C10_MatchTerminates ==
    /\ [][(pc = "match" /\ allValid /\ trades' # trades) =>
             /\ TotalQty(buyOrders') + TotalQty(sellOrders')
                  < TotalQty(buyOrders) + TotalQty(sellOrders)
             /\ TotalQty(buyOrders') + TotalQty(sellOrders') >= 0]_vars
    /\ (pc = "match" /\ allValid) ~> (pc = "idle")

\* a call of a valid run has gone twice round the loop and returned
C10_Witness ==
    /\ pc = "idle" /\ allValid
    /\ Len(trades) >= 2

\* ==== C11 ===================================================================
\* C11: a call of printOrderBook leaves buyOrders, sellOrders and the id
\* counter as they were, and prints the same bid and ask sequences as every
\* printOrderBook before it since the last placeOrder.
C11_InspectDoesNotMutate ==
    [][Len(printed') > Len(printed) =>
          /\ buyOrders' = buyOrders
          /\ sellOrders' = sellOrders
          /\ orderIdCounter' = orderIdCounter
          /\ \A i \in 1..Len(printed) : printed'[Len(printed')] = printed[i]
      ]_vars

\* two consecutive calls have printed a book with orders on both sides
C11_Witness ==
    /\ Len(printed) >= 2
    /\ printed[1].buy # <<>> /\ printed[1].sell # <<>>
    /\ printed[2] = printed[1]

\* ==== C13 ===================================================================
\* the front order of a side has price-time priority over the rest of it
FrontHasPriority(side, isBuy) ==
    \A i \in 2..Len(side) :
        /\ IF isBuy THEN side[i].price <= side[1].price
                    ELSE side[i].price >= side[1].price
        /\ side[i].price = side[1].price => side[i].id > side[1].id

\* C13: whenever an iteration of the match loop is about to reduce the two
\* front orders by a positive quantity, no order of either side has a
\* strictly better price than its front order, and none has the same price
\* and a smaller id.
C13_PriceTimePriority ==
    ( /\ pc = "match"
      /\ buyOrders # <<>> /\ sellOrders # <<>>
      /\ buyOrders[1].price >= sellOrders[1].price
      /\ buyOrders[1].quantity > 0 /\ sellOrders[1].quantity > 0 ) =>
        /\ FrontHasPriority(buyOrders, TRUE)
        /\ FrontHasPriority(sellOrders, FALSE)

\* ==== C14 ===================================================================
\* the step is an iteration of the match loop that has printed a trade
TradeStep == pc = "match" /\ Len(trades') = Len(trades) + 1

\* what one step does to the resting order o of the vector `side`
LifecycleStep(o, side, sideAfter) ==
    LET after == {x \in Range(sideAfter) : x.id = o.id} IN
    IF after # {}
      THEN \A x \in after :
              /\ x.isBuy = o.isBuy
              /\ x.price = o.price
              /\ x.quantity <= o.quantity
              /\ x.quantity # o.quantity =>
                    /\ TradeStep
                    /\ x.quantity
                         = o.quantity - trades'[Len(trades')].quantity
      ELSE /\ TradeStep
           /\ o.quantity - trades'[Len(trades')].quantity = 0

\* C14: in every step an order that rests keeps its id, side and price; its
\* quantity does not grow and changes only by the quantity of a trade; it
\* leaves its vector only in a match iteration that brought its quantity to
\* zero; and an order that enters a vector carries an id never used before.
C14_OrderLifecycle ==
    [][ /\ \A o \in Range(buyOrders) : LifecycleStep(o, buyOrders, buyOrders')
        /\ \A o \in Range(sellOrders) : LifecycleStep(o, sellOrders, sellOrders')
        /\ \A x \in Range(buyOrders') \cup Range(sellOrders') :
              (\A o \in Resting : o.id # x.id) => x.id >= orderIdCounter
      ]_vars

\* ==== C15 ===================================================================
\* C15: in a run of valid submissions, whenever an iteration of the match
\* loop is about to trade, the front order of the incoming order's side is
\* the incoming order itself, so one side of every trade of the call is the
\* new order and the other side rested before the call.
C15_IncomingOrderInEveryTrade ==
    ( /\ allValid /\ pc = "match"
      /\ buyOrders # <<>> /\ sellOrders # <<>>
      /\ buyOrders[1].price >= sellOrders[1].price ) =>
        /\ (IF order.isBuy THEN buyOrders[1] ELSE sellOrders[1]).id = order.id
        /\ \E p \in Range(IF order.isBuy THEN preSell ELSE preBuy) :
              p.id = (IF order.isBuy THEN sellOrders[1] ELSE buyOrders[1]).id

\* an iteration is about to trade while an earlier order rests on the
\* incoming order's own side
C15_Witness ==
    /\ allValid /\ pc = "match"
    /\ buyOrders # <<>> /\ sellOrders # <<>>
    /\ buyOrders[1].price >= sellOrders[1].price
    /\ (IF order.isBuy THEN preBuy ELSE preSell) # <<>>

\* ==== C16 ===================================================================
\* quantity resting on the opposite side before the call at a price the
\* incoming order accepts
Fillable ==
    IF order.isBuy
      THEN TotalQty(SelectSeq(preSell, LAMBDA a : a.price <= order.price))
      ELSE TotalQty(SelectSeq(preBuy, LAMBDA b : b.price >= order.price))

Executed == SumTrades(trades)

\* the incoming order as it rests on its own side, if it does
RestOfOrder ==
    {o \in Range(IF order.isBuy THEN buyOrders ELSE sellOrders) :
        o.id = order.id}

\* C16: when a call with a valid order has returned, the quantity executed
\* in the call is min(q, quantity resting before the call on the opposite
\* side at prices the order accepts), and the order rests on its own side
\* with the remainder exactly when the remainder is positive.
C16_MaximalFill ==
    (pc = "idle" /\ Called /\ ValidOrder(order)) =>
        LET fill == IF order.quantity < Fillable
                      THEN order.quantity ELSE Fillable
        IN  /\ Executed = fill
            /\ order.quantity - fill > 0 =>
                  RestOfOrder = {[order EXCEPT !.quantity = @ - fill]}
            /\ order.quantity - fill = 0 => RestOfOrder = {}

\* ==== C17 ===================================================================
\* the incoming order did not cross the book it was submitted to
NonCrossingSubmission ==
    IF order.isBuy
      THEN preSell = <<>> \/ order.price < preSell[1].price
      ELSE preBuy = <<>> \/ order.price > preBuy[1].price

\* C17: when a call with a valid order that did not cross the book has
\* returned, no trade was emitted, the opposite side is as before, and the
\* own side is its previous content in its previous order with the new
\* order, at its full quantity, added.
C17_NonCrossingFrame ==
    (pc = "idle" /\ Called /\ ValidOrder(order) /\ NonCrossingSubmission) =>
        LET own    == IF order.isBuy THEN buyOrders ELSE sellOrders
            preOwn == IF order.isBuy THEN preBuy ELSE preSell
        IN  /\ trades = <<>>
            /\ IF order.isBuy THEN sellOrders = preSell
                              ELSE buyOrders = preBuy
            /\ Len(own) = Len(preOwn) + 1
            /\ order \in Range(own)
            /\ SelectSeq(own, LAMBDA o : o.id # order.id) = preOwn

\* ==== C18 ===================================================================
\* C18: every trade's price lies between the price of the sell order and
\* the price of the buy order it fills; the trades of a call with an
\* incoming buy come in non-decreasing price order; every trade of a call
\* with an incoming sell carries the incoming sell's own price.
C18_TradePriceOrder ==
    [][TradeStep =>
          LET t == trades'[Len(trades')] IN
          /\ sellOrders[1].price <= t.price
          /\ t.price <= buyOrders[1].price
          /\ (order.isBuy /\ trades # <<>>) =>
                trades[Len(trades)].price <= t.price
          /\ ~order.isBuy => t.price = order.price
      ]_vars

\* an incoming buy has traded at two rising prices, both below its own
C18_Witness ==
    /\ pc = "idle" /\ order.isBuy
    /\ Len(trades) >= 2
    /\ trades[1].price < trades[2].price
    /\ trades[1].price < order.price

=============================================================================
